---- MODULE Spec2Model ----
(***************************************************************************)
(* Model of ladybug_comfort.collection: the OutdoorSolarCal and UTCI       *)
(* calculators, their input validation, the per-timestep calculation and   *)
(* the UTCI percentage statistics.                                         *)
(***************************************************************************)
EXTENDS Integers, Sequences, FiniteSets, TLC

(***************************************************************************)
(* IEEE-754 binary64 arithmetic on non-negative numbers, as Python's float *)
(* computes it (round to nearest, ties to even).  A float is a record      *)
(* [m, e]: m is the 53-bit significand, most significant bit first (its    *)
(* first bit is 1), e is the binary exponent of that first bit; zero is    *)
(* the record with the empty significand.                                  *)
(***************************************************************************)
Precision == 53

FZero == [m |-> <<>>, e |-> 0]

\* drop leading zero bits, lowering the exponent of the leading bit
StripLead(bits, e) ==
    IF \A i \in 1..Len(bits) : bits[i] = 0 THEN FZero
    ELSE LET j == CHOOSE i \in 1..Len(bits) :
                      bits[i] = 1 /\ \A k \in 1..(i - 1) : bits[k] = 0
         IN  [m |-> SubSeq(bits, j, Len(bits)), e |-> e - (j - 1)]

\* add one unit in the last place to a bit string; a carry out of the first
\* bit lengthens the string by one
Incr(bits) ==
    LET n == Len(bits) IN
    IF \A i \in 1..n : bits[i] = 1 THEN <<1>> \o [i \in 1..n |-> 0]
    ELSE LET j == CHOOSE i \in 1..n :
                      bits[i] = 0 /\ \A k \in (i + 1)..n : bits[k] = 1
         IN  [i \in 1..n |-> IF i < j THEN bits[i]
                             ELSE IF i = j THEN 1 ELSE 0]

Zeros(n) == [i \in 1..n |-> 0]

\* round an exact bit string (leading bit of weight 2^e) to a float
RoundBits(bits, e) ==
    LET s == StripLead(bits, e)
        n == Len(s.m)
    IN  IF n = 0 THEN FZero
        ELSE IF n <= Precision
             THEN [m |-> s.m \o Zeros(Precision - n), e |-> s.e]
        ELSE LET kept   == SubSeq(s.m, 1, Precision)
                 guard  == s.m[Precision + 1]
                 sticky == \E i \in (Precision + 2)..n : s.m[i] = 1
                 up     == guard = 1 /\ (sticky \/ kept[Precision] = 1)
                 r      == IF up THEN Incr(kept) ELSE kept
             IN  IF Len(r) > Precision
                 THEN [m |-> SubSeq(r, 1, Precision), e |-> s.e + 1]
                 ELSE [m |-> r, e |-> s.e]

RECURSIVE NatBits(_)
\* the bits of a natural number, most significant first
NatBits(n) == IF n = 0 THEN <<>> ELSE NatBits(n \div 2) \o <<n % 2>>

\* the float of a small natural number (exact)
FInt(n) == RoundBits(NatBits(n), Len(NatBits(n)) - 1)

RECURSIVE PowMod(_, _)
\* 2^i modulo n
PowMod(i, n) ==
    IF i = 0 THEN 1 % n
    ELSE LET h == PowMod(i \div 2, n)
         IN  (h * h * (IF i % 2 = 1 THEN 2 ELSE 1)) % n

\* k further quotient bits of r / n (r < n) by long division, then a sticky
\* bit: the remainder after i bits is r * 2^i modulo n
DivBits(r, n, k) ==
    LET rem(i) == (r * PowMod(i, n)) % n
    IN  [i \in 1..k |-> IF 2 * rem(i - 1) >= n THEN 1 ELSE 0]
        \o <<IF rem(k) = 0 THEN 0 ELSE 1>>

RECURSIVE DivExp(_, _, _)
\* the exponent e with 2^e <= a / n < 2^(e+1), returned with the scaled pair
DivExp(a, n, e) ==
    IF a < n THEN DivExp(2 * a, n, e - 1)
    ELSE IF a >= 2 * n THEN DivExp(a, 2 * n, e + 1)
    ELSE [a |-> a, n |-> n, e |-> e]

\* Python's a / n (true division) of two naturals, n > 0
FDivInt(a, n) ==
    IF a = 0 THEN FZero
    ELSE LET d == DivExp(a, n, 0)
         IN  RoundBits(<<1>> \o DivBits(d.a - d.n, d.n, Precision + 1), d.e)

\* the carry into bit i of the sum of two bit strings of one length
Carry(a, b, i) ==
    \E j \in (i + 1)..Len(a) :
        /\ a[j] = 1 /\ b[j] = 1
        /\ \A k \in (i + 1)..(j - 1) : a[k] # b[k]

\* the sum of two bit strings of one length; a carry out of the first bit
\* lengthens the string by one
AddBits(a, b) ==
    LET s == [i \in 1..Len(a) |->
                 (a[i] + b[i] + (IF Carry(a, b, i) THEN 1 ELSE 0)) % 2]
    IN  IF Carry(a, b, 0) THEN <<1>> \o s ELSE s

RECURSIVE MulBits(_, _)
\* a bit string times the small natural c, by shift and add; the weight of
\* the last bit stays
MulBits(bits, c) ==
    IF c = 0 THEN <<>>
    ELSE IF c = 1 THEN bits
    ELSE LET h == MulBits(bits, c \div 2) \o <<0>>
         IN  IF c % 2 = 0 THEN h
             ELSE AddBits(h, [i \in 1..(Len(h) - Len(bits)) |-> 0] \o bits)

\* Python's x * c for a float x and a small natural c
FMulInt(x, c) ==
    IF x.m = <<>> \/ c = 0 THEN FZero
    ELSE LET p == MulBits(x.m, c)
         IN  RoundBits(p, x.e + (Len(p) - Len(x.m)))

\* both operands as bit strings of one length whose first bit has weight 2^e
Aligned(x, y) ==
    LET top == IF x.m = <<>> THEN y.e ELSE IF y.m = <<>> THEN x.e
               ELSE IF x.e >= y.e THEN x.e ELSE y.e
        lowx == IF x.m = <<>> THEN top ELSE x.e - (Len(x.m) - 1)
        lowy == IF y.m = <<>> THEN top ELSE y.e - (Len(y.m) - 1)
        low == IF lowx <= lowy THEN lowx ELSE lowy
        ext(z, lowz) == IF z.m = <<>> THEN Zeros(top - low + 1)
                        ELSE Zeros(top - z.e) \o z.m \o Zeros(lowz - low)
    IN  [a |-> ext(x, lowx), b |-> ext(y, lowy), e |-> top]

\* Python's x + y for non-negative floats
FAdd(x, y) ==
    LET al == Aligned(x, y)
        s  == AddBits(al.a, al.b)
    IN  RoundBits(s, al.e + (Len(s) - Len(al.a)))

\* the borrow from bit i of the difference of two bit strings of one length
Borrow(a, b, i) ==
    \E j \in (i + 1)..Len(a) :
        /\ a[j] = 0 /\ b[j] = 1
        /\ \A k \in (i + 1)..(j - 1) : a[k] = b[k]

\* a - b for bit strings of one length, a >= b
SubBits(a, b) ==
    [i \in 1..Len(a) |->
        (a[i] - b[i] - (IF Borrow(a, b, i) THEN 1 ELSE 0)) % 2]

\* Python's x - y for floats with x >= y >= 0
FSub(x, y) ==
    LET al == Aligned(x, y)
    IN  RoundBits(SubBits(al.a, al.b), al.e)


(***************************************************************************)
(* Exact arithmetic on the same records without the limit on the length of *)
(* the significand, to measure a float against the real number it stands   *)
(* for.                                                                    *)
(***************************************************************************)
Pow2(k) == [m |-> <<1>>, e |-> k]

ExInt(n) == StripLead(NatBits(n), Len(NatBits(n)) - 1)

ExMulInt(x, c) ==
    IF x.m = <<>> \/ c = 0 THEN FZero
    ELSE LET p == MulBits(x.m, c)
         IN  StripLead(p, x.e + (Len(p) - Len(x.m)))

ExAdd(x, y) ==
    LET al == Aligned(x, y)
        s  == AddBits(al.a, al.b)
    IN  StripLead(s, al.e + (Len(s) - Len(al.a)))

\* a <= b for bit strings of one length
BitsLeq(a, b) ==
    \/ \A i \in 1..Len(a) : a[i] = b[i]
    \/ \E j \in 1..Len(a) :
           a[j] < b[j] /\ \A k \in 1..(j - 1) : a[k] = b[k]

ExLeq(x, y) == LET al == Aligned(x, y) IN BitsLeq(al.a, al.b)

\* |x - y| <= tol
Within(x, y, tol) == ExLeq(x, ExAdd(y, tol)) /\ ExLeq(y, ExAdd(x, tol))

\* the same number, whatever the zero bits that end the significand
ExEq(x, y) == ExLeq(x, y) /\ ExLeq(y, x)

(***************************************************************************)
(* Values.  Numbers that reach the external formulas are integers in a     *)
(* fixed scale: fractions in hundredths (1.0 is 100, 0.25 is 25), wind     *)
(* speed in tenths of m/s (0.1 is 1), temperatures in degrees C, relative  *)
(* humidity in percent.                                                    *)
(***************************************************************************)
None == [kind |-> "none"]
Number(v) == [kind |-> "num", v |-> v]
NotACollection == [kind |-> "other"]

\* a data collection: class, header (data type, unit, timestep), datetimes
\* and values, one value per datetime
Collection(cls, dtype, unit, timestep, datetimes, values) ==
    [kind |-> "coll", cls |-> cls, dtype |-> dtype, unit |-> unit,
     timestep |-> timestep, datetimes |-> datetimes, values |-> values]

\* isinstance(data_type, dat_type) over the ladybug data type classes
IsInstance(dtype, dat_type) ==
    \/ dtype = dat_type
    \/ dat_type = "Temperature"
          /\ dtype \in {"AirTemperature", "MeanRadiantTemperature"}
    \/ dat_type = "Speed" /\ dtype = "WindSpeed"

\* ComfortDataCollection._check_datacoll: the error it raises, or "none"
check_datacoll(data_coll, dat_type, unit) ==
    IF data_coll.kind # "coll" THEN "TypeMismatch"
    ELSE IF ~IsInstance(data_coll.dtype, dat_type) THEN "TypeMismatch"
    ELSE IF data_coll.unit # unit THEN "UnitMismatch"
    ELSE "none"

\* the collection's get_aligned_collection(value, data_type, unit): the
\* receiver's datetimes with a constant value, or with a list of values
get_aligned_collection(base, value, dat_type, unit) ==
    Collection(base.cls, dat_type, unit, base.timestep, base.datetimes,
               [i \in 1..Len(base.values) |-> value])

\* collection.is_collection_aligned(other)
is_collection_aligned(a, b) ==
    /\ Len(a.values) = Len(b.values)
    /\ a.datetimes = b.datetimes

\* are_collections_aligned(collections): every collection against the first
are_collections_aligned(colls) ==
    Len(colls) > 1 =>
        \A i \in 2..Len(colls) : is_collection_aligned(colls[1], colls[i])

\* the object under construction after a failed check
Fail(o, error) == [o EXCEPT !.err = error]

\* ComfortDataCollection._check_input for OutdoorSolarCal: a number becomes
\* a collection aligned with the base collection and is not registered; a
\* collection is checked, registered for the alignment check and returned
check_input(o, field, x, dat_type, unit) ==
    IF x.kind = "num"
    THEN [o EXCEPT ![field] =
              get_aligned_collection(o.base_collection, x.v, dat_type, unit)]
    ELSE LET e == check_datacoll(x, dat_type, unit)
         IN  IF e # "none" THEN Fail(o, e)
             ELSE [o EXCEPT ![field] = x,
                            !.input_collections = Append(@, x)]


(***************************************************************************)
(* OutdoorSolarCal                                                         *)
(***************************************************************************)
\* SolarCalParameter(posture, sharp, body_azimuth, absorptivity, emissivity);
\* NoAzimuth stands for body_azimuth = None
NoAzimuth == -1
DefaultSharp == 135
DefaultAbsorptivity == 70
DefaultEmissivity == 95

SolarCalParameter(posture, sharp, body_azimuth) ==
    [kind |-> "SolarCalParameter", posture |-> posture, sharp |-> sharp,
     body_azimuth |-> body_azimuth,
     body_absorptivity |-> DefaultAbsorptivity,
     body_emissivity |-> DefaultEmissivity]

\* the fields of an OutdoorSolarCal before __init__ has assigned them
NewSolarCal ==
    [err |-> "none", location |-> None, dir_norm |-> None,
     diff_horiz |-> None, calc_length |-> 0, base_collection |-> None,
     horiz_ir |-> None, srf_temp |-> None, fract_exp |-> None,
     sky_exp |-> None, flr_ref |-> None, input_collections |-> <<>>,
     body_par |-> None, sun_calls |-> <<>>, calls |-> <<>>,
     computed |-> FALSE, s_erf |-> <<>>, s_dmrt |-> <<>>, l_erf |-> <<>>,
     l_dmrt |-> <<>>, dmrt |-> <<>>, mrt |-> <<>>]

\* _SolarCalBase._radiation_check: the error it raises, or "none"
radiation_check(data_coll) ==
    IF ~(data_coll.kind = "coll" /\ data_coll.cls = "Hourly")
    THEN "TypeMismatch"
    ELSE IF data_coll.dtype = "Radiation"
    THEN LET e == check_datacoll(data_coll, "Radiation", "Wh/m2")
         IN  IF e # "none" THEN e
             ELSE IF data_coll.timestep # 1 THEN "InvalidTimestep"
             ELSE "none"
    ELSE check_datacoll(data_coll, "Irradiance", "W/m2")

\* _SolarCalBase._body_par_check
body_par_check(o, body_par) ==
    IF body_par.kind = "none"
    THEN [o EXCEPT !.body_par = SolarCalParameter("standing", DefaultSharp,
                                                  NoAzimuth)]
    ELSE IF body_par.kind # "SolarCalParameter"
    THEN Fail(o, "InvalidParameter")
    ELSE [o EXCEPT !.body_par = body_par]

\* OutdoorSolarCal.__init__, "check required inputs": the location, the two
\* radiation collections, the base collection and its length
init_required(o, inp) ==
    IF inp.location.kind # "Location" THEN Fail(o, "TypeMismatch")
    ELSE LET o0 == [o EXCEPT !.location = inp.location]
             e1 == radiation_check(inp.diffuse_horizontal_solar)
             e2 == radiation_check(inp.diffuse_horizontal_solar)
         IN  IF e1 # "none" THEN Fail(o0, e1)
             ELSE IF e2 # "none" THEN Fail(o0, e2)
             ELSE LET o1 == [o0 EXCEPT
                        !.dir_norm = inp.diffuse_horizontal_solar,
                        !.diff_horiz = inp.diffuse_horizontal_solar,
                        !.calc_length =
                            Len(inp.diffuse_horizontal_solar.values),
                        !.base_collection = inp.diffuse_horizontal_solar]
                      o2 == check_input(o1, "horiz_ir",
                                inp.horizontal_infrared,
                                "HorizontalInfraredRadiationIntensity", "W/m2")
                  IN  IF o2.err # "none" THEN o2
                      ELSE check_input(o2, "srf_temp",
                               inp.surface_temperatures, "Temperature", "C")

DefaultFractExp == 100
DefaultSkyExp == 100
DefaultFlrRef == 25

\* one optional input: checked when given, else the default aligned with the
\* base collection
init_optional(o, field, x, default) ==
    IF o.err # "none" THEN o
    ELSE IF x.kind # "none"
    THEN check_input(o, field, x, "Percentage", "fraction")
    ELSE [o EXCEPT ![field] = get_aligned_collection(
                       o.base_collection, default, "Percentage", "fraction")]

\* the optional inputs with the floor reflectance defaulting to 1
init_optionals_flr_one(o, inp) ==
    LET o1 == init_optional(o, "fract_exp", inp.fraction_body_exposed,
                            DefaultFractExp)
        o2 == init_optional(o1, "sky_exp", inp.sky_exposure, DefaultSkyExp)
    IN  init_optional(o2, "flr_ref", inp.floor_reflectance, DefaultFractExp)

\* OutdoorSolarCal.__init__, "check optional inputs"
init_optionals(o, inp) ==
    LET o1 == init_optional(o, "fract_exp", inp.fraction_body_exposed,
                            DefaultFractExp)
        o2 == init_optional(o1, "sky_exp", inp.sky_exposure, DefaultSkyExp)
    IN  init_optional(o2, "flr_ref", inp.floor_reflectance, DefaultFlrRef)

\* OutdoorSolarCal.__init__, the alignment check of the registered inputs
init_aligned(o) ==
    IF o.err # "none" THEN o
    ELSE IF ~are_collections_aligned(o.input_collections)
    THEN Fail(o, "MisalignedCollections")
    ELSE o

\* OutdoorSolarCal.__init__, "check comfort parameters"
init_body_par(o, inp) ==
    IF o.err # "none" THEN o ELSE body_par_check(o, inp.solarcal_body_parameter)

\* the Sunpath of a location: the sun at a datetime, in whole degrees (a
\* stand-in that tells the locations and the datetimes apart)
calculate_sun_from_date_time(location, t_date) ==
    [altitude |-> 10 * t_date + location.id,
     azimuth |-> 90 + 20 * t_date + location.id]

\* the angle between the sun and the direction the body faces, 0..180
sharp_from_solar_and_body_azimuth(solar_azimuth, body_azimuth) ==
    LET diff == IF solar_azimuth >= body_azimuth
                THEN solar_azimuth - body_azimuth
                ELSE body_azimuth - solar_azimuth
    IN  IF diff <= 180 THEN diff ELSE 360 - diff

\* the external formula: each of its outputs is a term over its arguments
outdoor_sky_heat_exch(args) ==
    [s_erf |-> <<"s_erf", args>>, s_dmrt |-> <<"s_dmrt", args>>,
     l_erf |-> <<"l_erf", args>>, l_dmrt |-> <<"l_dmrt", args>>,
     mrt |-> <<"mrt", args>>]

\* the sum of two formula outputs
Plus(a, b) == <<"+", a, b>>

MinOf(S) == CHOOSE x \in S : \A y \in S : x <= y

\* _calculate_solarcal with one of its steps changed: the fixed SHARP of the
\* body parameters used whatever the body azimuth (fixed_sharp), or the
\* total MRT delta taken as the shortwave delta alone (shortwave_only)
calculate_solarcal_changed(o, fixed_sharp, shortwave_only) ==
    IF o.err # "none" THEN o
    ELSE
    LET datetimes == o.base_collection.datetimes
        suns == [i \in 1..Len(datetimes) |->
                    calculate_sun_from_date_time(o.location, datetimes[i])]
        altitudes == [i \in 1..Len(datetimes) |-> suns[i].altitude]
        sharps == IF fixed_sharp \/ o.body_par.body_azimuth = NoAzimuth
                  THEN [i \in 1..o.calc_length |-> o.body_par.sharp]
                  ELSE [i \in 1..Len(datetimes) |->
                           sharp_from_solar_and_body_azimuth(
                               suns[i].azimuth, o.body_par.body_azimuth)]
        steps == MinOf({Len(o.srf_temp.values), Len(o.horiz_ir.values),
                        Len(o.diff_horiz.values), Len(o.dir_norm.values),
                        Len(altitudes), Len(sharps), Len(o.sky_exp.values),
                        Len(o.fract_exp.values), Len(o.flr_ref.values)})
        args == [k \in 1..steps |->
                    [t_srfs |-> o.srf_temp.values[k],
                     horiz_ir |-> o.horiz_ir.values[k],
                     diff |-> o.diff_horiz.values[k],
                     dir |-> o.dir_norm.values[k],
                     alt |-> altitudes[k],
                     sky_e |-> o.sky_exp.values[k],
                     fract_e |-> o.fract_exp.values[k],
                     flr_ref |-> o.flr_ref.values[k],
                     posture |-> o.body_par.posture,
                     sharp |-> sharps[k],
                     body_absorptivity |-> o.body_par.body_absorptivity,
                     body_emissivity |-> o.body_par.body_emissivity]]
        result == [k \in 1..steps |-> outdoor_sky_heat_exch(args[k])]
    IN  [o EXCEPT
            !.sun_calls = datetimes,
            !.calls = args,
            !.computed = TRUE,
            !.s_erf = [k \in 1..steps |-> result[k].s_erf],
            !.s_dmrt = [k \in 1..steps |-> result[k].s_dmrt],
            !.l_erf = [k \in 1..steps |-> result[k].l_erf],
            !.l_dmrt = [k \in 1..steps |-> result[k].l_dmrt],
            !.dmrt = [k \in 1..steps |->
                         IF shortwave_only THEN result[k].s_dmrt
                         ELSE Plus(result[k].s_dmrt, result[k].l_dmrt)],
            !.mrt = [k \in 1..steps |-> result[k].mrt]]

\* _calculate_solarcal ignoring the body azimuth
calculate_solarcal_fixed_sharp(o) ==
    calculate_solarcal_changed(o, TRUE, FALSE)

\* _calculate_solarcal leaving the longwave delta out of the total
calculate_solarcal_shortwave_only(o) ==
    calculate_solarcal_changed(o, FALSE, TRUE)

\* OutdoorSolarCal._calculate_solarcal
calculate_solarcal(o) ==
    IF o.err # "none" THEN o
    ELSE
    LET datetimes == o.base_collection.datetimes
        suns == [i \in 1..Len(datetimes) |->
                    calculate_sun_from_date_time(o.location, datetimes[i])]
        altitudes == [i \in 1..Len(datetimes) |-> suns[i].altitude]
        sharps == IF o.body_par.body_azimuth = NoAzimuth
                  THEN [i \in 1..o.calc_length |-> o.body_par.sharp]
                  ELSE [i \in 1..Len(datetimes) |->
                           sharp_from_solar_and_body_azimuth(
                               suns[i].azimuth, o.body_par.body_azimuth)]
        \* zip stops at the shortest of its arguments
        steps == MinOf({Len(o.srf_temp.values), Len(o.horiz_ir.values),
                        Len(o.diff_horiz.values), Len(o.dir_norm.values),
                        Len(altitudes), Len(sharps), Len(o.sky_exp.values),
                        Len(o.fract_exp.values), Len(o.flr_ref.values)})
        args == [k \in 1..steps |->
                    [t_srfs |-> o.srf_temp.values[k],
                     horiz_ir |-> o.horiz_ir.values[k],
                     diff |-> o.diff_horiz.values[k],
                     dir |-> o.dir_norm.values[k],
                     alt |-> altitudes[k],
                     sky_e |-> o.sky_exp.values[k],
                     fract_e |-> o.fract_exp.values[k],
                     flr_ref |-> o.flr_ref.values[k],
                     posture |-> o.body_par.posture,
                     sharp |-> sharps[k],
                     body_absorptivity |-> o.body_par.body_absorptivity,
                     body_emissivity |-> o.body_par.body_emissivity]]
        result == [k \in 1..steps |-> outdoor_sky_heat_exch(args[k])]
    IN  [o EXCEPT
            !.sun_calls = datetimes,
            !.calls = args,
            !.computed = TRUE,
            !.s_erf = [k \in 1..steps |-> result[k].s_erf],
            !.s_dmrt = [k \in 1..steps |-> result[k].s_dmrt],
            !.l_erf = [k \in 1..steps |-> result[k].l_erf],
            !.l_dmrt = [k \in 1..steps |-> result[k].l_dmrt],
            !.dmrt = [k \in 1..steps |->
                         Plus(result[k].s_dmrt, result[k].l_dmrt)],
            !.mrt = [k \in 1..steps |-> result[k].mrt]]

\* __init__ with the alignment check moved behind the calculation
OutdoorSolarCal_aligned_last(inp) ==
    init_aligned(
        calculate_solarcal(
            init_body_par(
                init_optionals(init_required(NewSolarCal, inp), inp), inp)))

\* OutdoorSolarCal.__init__
OutdoorSolarCal(inp) ==
    calculate_solarcal(
        init_body_par(
            init_aligned(
                init_optionals(init_required(NewSolarCal, inp), inp)), inp))


(***************************************************************************)
(* UTCI                                                                    *)
(***************************************************************************)
\* UTCIParameter: the thresholds between the eleven stress categories
UTCIParameter(cold_thresh, heat_thresh) ==
    [kind |-> "UTCIParameter",
     extreme_cold_thresh |-> -40, very_strong_cold_thresh |-> -27,
     strong_cold_thresh |-> -13, moderate_cold_thresh |-> 0,
     cold_thresh |-> cold_thresh, heat_thresh |-> heat_thresh,
     moderate_heat_thresh |-> 28, strong_heat_thresh |-> 32,
     very_strong_heat_thresh |-> 38, extreme_heat_thresh |-> 46]

DefaultColdThresh == 9
DefaultHeatThresh == 26

\* UTCIParameter.thermal_condition_eleven_point
thermal_condition_eleven_point(par, utci) ==
    IF utci < par.extreme_cold_thresh THEN -5
    ELSE IF utci < par.very_strong_cold_thresh THEN -4
    ELSE IF utci < par.strong_cold_thresh THEN -3
    ELSE IF utci < par.moderate_cold_thresh THEN -2
    ELSE IF utci < par.cold_thresh THEN -1
    ELSE IF utci < par.heat_thresh THEN 0
    ELSE IF utci < par.moderate_heat_thresh THEN 1
    ELSE IF utci < par.strong_heat_thresh THEN 2
    ELSE IF utci < par.very_strong_heat_thresh THEN 3
    ELSE IF utci < par.extreme_heat_thresh THEN 4
    ELSE 5

\* UTCIParameter.is_comfortable: 1 between the cold and heat thresholds
is_comfortable(par, utci) ==
    IF utci >= par.cold_thresh /\ utci <= par.heat_thresh THEN 1 ELSE 0

\* UTCIParameter.thermal_condition: -1 cold, 0 neutral, +1 hot
thermal_condition(par, utci) ==
    IF utci < par.cold_thresh THEN -1
    ELSE IF utci > par.heat_thresh THEN 1
    ELSE 0

\* UTCIParameter.thermal_condition_five_point
thermal_condition_five_point(par, utci) ==
    IF utci < par.strong_cold_thresh THEN -2
    ELSE IF utci < par.cold_thresh THEN -1
    ELSE IF utci < par.heat_thresh THEN 0
    ELSE IF utci < par.strong_heat_thresh THEN 1
    ELSE 2

\* UTCIParameter.thermal_condition_seven_point
thermal_condition_seven_point(par, utci) ==
    IF utci < par.very_strong_cold_thresh THEN -3
    ELSE IF utci < par.strong_cold_thresh THEN -2
    ELSE IF utci < par.cold_thresh THEN -1
    ELSE IF utci < par.heat_thresh THEN 0
    ELSE IF utci < par.strong_heat_thresh THEN 1
    ELSE IF utci < par.very_strong_heat_thresh THEN 2
    ELSE 3

\* UTCIParameter.thermal_condition_nine_point
thermal_condition_nine_point(par, utci) ==
    IF utci < par.very_strong_cold_thresh THEN -4
    ELSE IF utci < par.strong_cold_thresh THEN -3
    ELSE IF utci < par.moderate_cold_thresh THEN -2
    ELSE IF utci < par.cold_thresh THEN -1
    ELSE IF utci < par.heat_thresh THEN 0
    ELSE IF utci < par.moderate_heat_thresh THEN 1
    ELSE IF utci < par.strong_heat_thresh THEN 2
    ELSE IF utci < par.very_strong_heat_thresh THEN 3
    ELSE 4

\* UTCIParameter.original_utci_category: the ten categories of the original
\* assessment scale, 0 (extreme cold stress) to 9 (extreme heat stress)
original_utci_category(par, utci) ==
    IF utci < par.extreme_cold_thresh THEN 0
    ELSE IF utci < par.very_strong_cold_thresh THEN 1
    ELSE IF utci < par.strong_cold_thresh THEN 2
    ELSE IF utci < par.moderate_cold_thresh THEN 3
    ELSE IF utci < par.cold_thresh THEN 4
    ELSE IF utci < par.heat_thresh THEN 5
    ELSE IF utci < par.strong_heat_thresh THEN 6
    ELSE IF utci < par.very_strong_heat_thresh THEN 7
    ELSE IF utci < par.extreme_heat_thresh THEN 8
    ELSE 9

\* the external comfort-index formula, a pure function of its four
\* arguments: it is the air temperature in still air at 50% humidity with
\* no radiant difference, and moves with each of the other arguments
universal_thermal_climate_index(ta, tr, vel, rh) ==
    ta + (tr - ta) \div 2 - vel \div 10 + (rh - 50) \div 25

\* the fields of a UTCI before __init__ has assigned them
NewUTCI ==
    [err |-> "none", air_temperature |-> <<>>, rel_humidity |-> <<>>,
     rad_temperature |-> <<>>, wind_speed |-> <<>>, calc_length |-> 0,
     base_collection |-> None, input_collections |-> <<>>,
     comfort_par |-> None, calls |-> <<>>, computed |-> FALSE,
     utci |-> <<>>, thermal_category |-> <<>>]

\* ComfortCollection._check_input for UTCI: a number becomes a list of
\* calc_length copies and is not registered; a collection is checked,
\* registered for the alignment check and its values are returned
check_input_values(o, field, x, dat_type, unit) ==
    IF x.kind = "num"
    THEN [o EXCEPT ![field] = [i \in 1..o.calc_length |-> x.v]]
    ELSE LET e == check_datacoll(x, dat_type, unit)
         IN  IF e # "none" THEN Fail(o, e)
             ELSE [o EXCEPT ![field] = x.values,
                            !.input_collections = Append(@, x)]

\* UTCI.__init__, the base collection and the required inputs
utci_required(o, inp) ==
    LET e == check_datacoll(inp.air_temperature, "Temperature", "C")
    IN  IF e # "none" THEN Fail(o, e)
        ELSE check_input_values(
                 [o EXCEPT !.input_collections = <<inp.air_temperature>>,
                           !.calc_length = Len(inp.air_temperature.values),
                           !.base_collection = inp.air_temperature,
                           !.air_temperature = inp.air_temperature.values],
                 "rel_humidity", inp.rel_humidity, "RelativeHumidity", "%")

DefaultWindSpeed == 1

\* UTCI.__init__, the radiant temperature: the input, else the air
\* temperature values
utci_rad_temperature(o, inp) ==
    IF o.err # "none" THEN o
    ELSE IF inp.rad_temperature.kind # "none"
    THEN check_input_values(o, "rad_temperature", inp.rad_temperature,
                            "Temperature", "C")
    ELSE [o EXCEPT !.rad_temperature = o.air_temperature]

\* UTCI.__init__, the wind speed: the input, else 0.1 m/s at every step
utci_wind_speed(o, inp) ==
    IF o.err # "none" THEN o
    ELSE IF inp.wind_speed.kind # "none"
    THEN check_input_values(o, "wind_speed", inp.wind_speed, "Speed", "m/s")
    ELSE [o EXCEPT !.wind_speed =
                       [i \in 1..o.calc_length |-> DefaultWindSpeed]]

\* UTCI.__init__, the alignment check of the registered inputs
utci_aligned(o) ==
    IF o.err # "none" THEN o
    ELSE IF ~are_collections_aligned(o.input_collections)
    THEN Fail(o, "MisalignedCollections")
    ELSE o

\* UTCI.__init__, "check comfort parameters"
utci_comfort_par(o, inp) ==
    IF o.err # "none" THEN o
    ELSE IF inp.comfort_parameter.kind = "none"
    THEN [o EXCEPT !.comfort_par =
              UTCIParameter(DefaultColdThresh, DefaultHeatThresh)]
    ELSE IF inp.comfort_parameter.kind # "UTCIParameter"
    THEN Fail(o, "InvalidParameter")
    ELSE [o EXCEPT !.comfort_par = inp.comfort_parameter]

\* _calculate_utci classifying the air temperature of the step
calculate_utci_classifies_air(o) ==
    IF o.err # "none" THEN o
    ELSE
    LET steps == MinOf({Len(o.air_temperature), Len(o.rad_temperature),
                        Len(o.wind_speed), Len(o.rel_humidity)})
        args == [k \in 1..steps |->
                    [ta |-> o.air_temperature[k], tr |-> o.rad_temperature[k],
                     vel |-> o.wind_speed[k], rh |-> o.rel_humidity[k]]]
    IN  [o EXCEPT
            !.calls = args,
            !.computed = TRUE,
            !.utci = [k \in 1..steps |->
                         universal_thermal_climate_index(
                             args[k].ta, args[k].tr, args[k].vel, args[k].rh)],
            !.thermal_category =
                [k \in 1..steps |->
                    thermal_condition_eleven_point(o.comfort_par,
                                                   o.air_temperature[k])]]

\* UTCI._calculate_utci
calculate_utci(o) ==
    IF o.err # "none" THEN o
    ELSE
    LET steps == MinOf({Len(o.air_temperature), Len(o.rad_temperature),
                        Len(o.wind_speed), Len(o.rel_humidity)})
        args == [k \in 1..steps |->
                    [ta |-> o.air_temperature[k], tr |-> o.rad_temperature[k],
                     vel |-> o.wind_speed[k], rh |-> o.rel_humidity[k]]]
        result == [k \in 1..steps |->
                      universal_thermal_climate_index(
                          args[k].ta, args[k].tr, args[k].vel, args[k].rh)]
    IN  [o EXCEPT
            !.calls = args,
            !.computed = TRUE,
            !.utci = result,
            !.thermal_category =
                [k \in 1..steps |->
                    thermal_condition_eleven_point(o.comfort_par, result[k])]]

\* UTCI.__init__
UTCI(inp) ==
    calculate_utci(
        utci_comfort_par(
            utci_aligned(
                utci_wind_speed(
                    utci_rad_temperature(utci_required(NewUTCI, inp), inp),
                    inp)), inp))

(***************************************************************************)
(* UTCI percentage statistics.  A result is the float, or the error the    *)
(* accessor ends in.                                                       *)
(***************************************************************************)
Value(x) == [err |-> "none", v |-> x]
Raised(error) == [err |-> error, v |-> FZero]

\* (sum(_vals) / self._calc_length) * 100, _vals a list of ones
PercentOf(vals, calc_length) ==
    IF calc_length = 0 THEN Raised("ZeroDivisionError")
    ELSE Value(FMulInt(FDivInt(Len(vals), calc_length), 100))

percent_comfortable(o) ==
    PercentOf(SelectSeq(o.thermal_category, LAMBDA t : t = 0), o.calc_length)

percent_uncomfortable(o) ==
    LET p == percent_comfortable(o)
    IN  IF p.err # "none" THEN p ELSE Value(FSub(FInt(100), p.v))

percent_neutral(o) == percent_comfortable(o)

percent_cold(o) ==
    PercentOf(SelectSeq(o.thermal_category, LAMBDA x : x < 0), o.calc_length)

\* percent_hot counting the neutral steps as hot
percent_hot_with_neutral(o) ==
    PercentOf(SelectSeq(o.thermal_category, LAMBDA x : x >= 0), o.calc_length)

percent_hot(o) ==
    PercentOf(SelectSeq(o.thermal_category, LAMBDA x : x > 0), o.calc_length)

percent_slight_cold_stress(o) ==
    PercentOf(SelectSeq(o.thermal_category, LAMBDA x : x = -1), o.calc_length)

percent_moderate_cold_stress(o) ==
    PercentOf(SelectSeq(o.thermal_category, LAMBDA x : x = -2), o.calc_length)

percent_strong_cold_stress(o) ==
    PercentOf(SelectSeq(o.thermal_category, LAMBDA x : x = -3), o.calc_length)

percent_very_strong_cold_stress(o) ==
    PercentOf(SelectSeq(o.thermal_category, LAMBDA x : x = -4), o.calc_length)

\* percent_extreme_cold_stress testing the code of very strong cold stress
percent_extreme_cold_stress_as_very_strong(o) ==
    PercentOf(SelectSeq(o.thermal_category, LAMBDA x : x = -4), o.calc_length)

percent_extreme_cold_stress(o) ==
    PercentOf(SelectSeq(o.thermal_category, LAMBDA x : x = -5), o.calc_length)

percent_slight_heat_stress(o) ==
    PercentOf(SelectSeq(o.thermal_category, LAMBDA x : x = 1), o.calc_length)

percent_moderate_heat_stress(o) ==
    PercentOf(SelectSeq(o.thermal_category, LAMBDA x : x = 2), o.calc_length)

percent_strong_heat_stress(o) ==
    PercentOf(SelectSeq(o.thermal_category, LAMBDA x : x = 3), o.calc_length)

percent_very_strong_heat_stress(o) ==
    PercentOf(SelectSeq(o.thermal_category, LAMBDA x : x = 4), o.calc_length)

percent_extreme_heat_stress(o) ==
    PercentOf(SelectSeq(o.thermal_category, LAMBDA x : x = 5), o.calc_length)

PercentNames ==
    {"percent_comfortable", "percent_uncomfortable", "percent_neutral",
     "percent_cold", "percent_hot", "percent_slight_cold_stress",
     "percent_moderate_cold_stress", "percent_strong_cold_stress",
     "percent_very_strong_cold_stress", "percent_extreme_cold_stress",
     "percent_slight_heat_stress", "percent_moderate_heat_stress",
     "percent_strong_heat_stress", "percent_very_strong_heat_stress",
     "percent_extreme_heat_stress"}

\* the percentage property of the given name
Percent(o, name) ==
    CASE name = "percent_comfortable" -> percent_comfortable(o)
      [] name = "percent_uncomfortable" -> percent_uncomfortable(o)
      [] name = "percent_neutral" -> percent_neutral(o)
      [] name = "percent_cold" -> percent_cold(o)
      [] name = "percent_hot" -> percent_hot(o)
      [] name = "percent_slight_cold_stress" -> percent_slight_cold_stress(o)
      [] name = "percent_moderate_cold_stress" ->
             percent_moderate_cold_stress(o)
      [] name = "percent_strong_cold_stress" -> percent_strong_cold_stress(o)
      [] name = "percent_very_strong_cold_stress" ->
             percent_very_strong_cold_stress(o)
      [] name = "percent_extreme_cold_stress" ->
             percent_extreme_cold_stress(o)
      [] name = "percent_slight_heat_stress" -> percent_slight_heat_stress(o)
      [] name = "percent_moderate_heat_stress" ->
             percent_moderate_heat_stress(o)
      [] name = "percent_strong_heat_stress" -> percent_strong_heat_stress(o)
      [] name = "percent_very_strong_heat_stress" ->
             percent_very_strong_heat_stress(o)
      [] name = "percent_extreme_heat_stress" ->
             percent_extreme_heat_stress(o)


(***************************************************************************)
(* Accessors.  An access returns a value or ends in an error; ref names    *)
(* the field of the calculator that the returned object is (the same       *)
(* object, not a copy), and is "" for a copy.                              *)
(***************************************************************************)
Copy(x) == [err |-> "none", value |-> x, ref |-> ""]
Same(x, field) == [err |-> "none", value |-> x, ref |-> field]
AccessError(error) == [err |-> error, value |-> None, ref |-> ""]

\* ComfortDataCollection._build_coll: a new collection aligned with the base
\* collection, which requires one value per datetime of the base
build_coll(o, value_list, dat_type, unit) ==
    IF Len(value_list) # Len(o.base_collection.values)
    THEN AccessError("AssertionError")
    ELSE Copy(Collection(o.base_collection.cls, dat_type, unit,
                         o.base_collection.timestep,
                         o.base_collection.datetimes, value_list))

SolarAccessors ==
    {"location", "fraction_body_exposed", "floor_reflectance",
     "solarcal_body_parameter", "mrt_delta", "mean_radiant_temperature",
     "diffuse_horizontal_solar", "direct_normal_solar",
     "surface_temperatures", "horizontal_infrared", "sky_exposure",
     "shortwave_effective_radiant_field", "longwave_effective_radiant_field",
     "shortwave_mrt_delta", "longwave_mrt_delta"}

\* the properties of _SolarCalBase and OutdoorSolarCal
SolarAccess(o, name) ==
    CASE name = "location" -> Copy(o.location)
      [] name = "fraction_body_exposed" -> Copy(o.fract_exp)
      [] name = "floor_reflectance" -> Copy(o.flr_ref)
      [] name = "solarcal_body_parameter" -> Copy(o.body_par)
      [] name = "mrt_delta" ->
             build_coll(o, o.dmrt, "RadiantTemperatureDelta", "C")
      [] name = "mean_radiant_temperature" ->
             build_coll(o, o.mrt, "MeanRadiantTemperature", "C")
      [] name = "diffuse_horizontal_solar" -> Copy(o.diff_horiz)
      [] name = "direct_normal_solar" -> Copy(o.dir_norm)
      [] name = "surface_temperatures" -> Copy(o.srf_temp)
      [] name = "horizontal_infrared" -> Copy(o.horiz_ir)
      [] name = "sky_exposure" -> Copy(o.sky_exp)
      [] name = "shortwave_effective_radiant_field" ->
             build_coll(o, o.s_erf, "EffectiveRadiantField", "W/m2")
      [] name = "longwave_effective_radiant_field" ->
             build_coll(o, o.l_erf, "EffectiveRadiantField", "W/m2")
      [] name = "shortwave_mrt_delta" ->
             build_coll(o, o.s_dmrt, "RadiantTemperatureDelta", "C")
      [] name = "longwave_mrt_delta" ->
             build_coll(o, o.l_dmrt, "RadiantTemperatureDelta", "C")

\* ComfortCollection._get_coll: the labeled collection of a value list (of
\* the list a function returns when the property passes one), built on
\* access as a collection of its own.  attr_name is the attribute the
\* property names for the collection; keeping it there does not change the
\* fields of the calculator that the model has
get_coll(o, attr_name, value_list, dat_type, unit) ==
    build_coll(o, value_list, dat_type, unit)

\* UTCI._comf_val_funct
comf_val_funct(o) ==
    [k \in 1..Len(o.utci) |-> is_comfortable(o.comfort_par, o.utci[k])]

\* UTCI._condit_val_funct
condit_val_funct(o) ==
    [k \in 1..Len(o.utci) |-> thermal_condition(o.comfort_par, o.utci[k])]

\* UTCI._five_pt_funct
five_pt_funct(o) ==
    [k \in 1..Len(o.utci) |->
        thermal_condition_five_point(o.comfort_par, o.utci[k])]

\* UTCI._seven_pt_funct
seven_pt_funct(o) ==
    [k \in 1..Len(o.utci) |->
        thermal_condition_seven_point(o.comfort_par, o.utci[k])]

\* UTCI._nine_pt_funct
nine_pt_funct(o) ==
    [k \in 1..Len(o.utci) |->
        thermal_condition_nine_point(o.comfort_par, o.utci[k])]

\* UTCI._original_category_funct
original_category_funct(o) ==
    [k \in 1..Len(o.utci) |->
        original_utci_category(o.comfort_par, o.utci[k])]

UTCIAccessors ==
    {"air_temperature", "rad_temperature", "wind_speed", "rel_humidity",
     "comfort_parameter", "universal_thermal_climate_index",
     "is_comfortable", "thermal_condition", "thermal_condition_five_point",
     "thermal_condition_seven_point", "thermal_condition_nine_point",
     "thermal_condition_eleven_point", "original_utci_category"}

\* UTCI.comfort_parameter: the parameter object of the calculator itself
utci_comfort_parameter(o) == Same(o.comfort_par, "comfort_par")

\* the properties of UTCI
UTCIAccess(o, name) ==
    CASE name = "air_temperature" ->
             get_coll(o, "_air_temperature_coll", o.air_temperature,
                      "AirTemperature", "C")
      [] name = "rad_temperature" ->
             get_coll(o, "_rad_temperature_coll", o.rad_temperature,
                      "MeanRadiantTemperature", "C")
      [] name = "wind_speed" ->
             get_coll(o, "_wind_speed_coll", o.wind_speed, "WindSpeed", "m/s")
      [] name = "rel_humidity" ->
             get_coll(o, "_rel_humidity_coll", o.rel_humidity,
                      "RelativeHumidity", "%")
      [] name = "comfort_parameter" -> utci_comfort_parameter(o)
      [] name = "universal_thermal_climate_index" ->
             get_coll(o, "_utci_coll", o.utci,
                      "UniversalThermalClimateIndex", "C")
      [] name = "is_comfortable" ->
             get_coll(o, "_is_comfortable_coll", comf_val_funct(o),
                      "ThermalComfort", "condition")
      [] name = "thermal_condition" ->
             get_coll(o, "_thermal_condition_coll", condit_val_funct(o),
                      "ThermalCondition", "condition")
      [] name = "thermal_condition_five_point" ->
             get_coll(o, "_five_point_coll", five_pt_funct(o),
                      "ThermalConditionFivePoint", "condition")
      [] name = "thermal_condition_seven_point" ->
             get_coll(o, "_seven_point_coll", seven_pt_funct(o),
                      "ThermalConditionSevenPoint", "condition")
      [] name = "thermal_condition_nine_point" ->
             get_coll(o, "_nine_point_coll", nine_pt_funct(o),
                      "ThermalConditionNinePoint", "condition")
      [] name = "thermal_condition_eleven_point" ->
             get_coll(o, "_eleven_point_coll", o.thermal_category,
                      "ThermalConditionElevenPoint", "condition")
      [] name = "original_utci_category" ->
             get_coll(o, "_original_category_coll",
                      original_category_funct(o), "UTCICategory", "condition")

\* what a caller can do to an object it was handed: set an attribute
Mutated(x) ==
    CASE x.kind = "coll" -> [x EXCEPT !.unit = "changed"]
      [] x.kind = "Location" -> [x EXCEPT !.id = 0]
      [] x.kind = "SolarCalParameter" -> [x EXCEPT !.posture = "changed"]
      [] x.kind = "UTCIParameter" -> [x EXCEPT !.heat_thresh = 20]


(***************************************************************************)
(* The inputs of the constructors.  A construction takes the nominal       *)
(* inputs of some length with one or two of them replaced by another value *)
(* of that input; a UTCI also takes every sequence of air temperatures.    *)
(***************************************************************************)
MaxLen == 2
MaxSteps == 3

Datetimes(start, n) == [i \in 1..n |-> start + i]
Ramp(first, n) == [i \in 1..n |-> first + i]
Const(v, n) == [i \in 1..n |-> v]
Hourly(dtype, unit, timestep, start, values) ==
    Collection("Hourly", dtype, unit, timestep,
               Datetimes(start, Len(values)), values)
OtherLens(n, max) == {n - 1, n + 1} \cap (0..max)

Location(id) == [kind |-> "Location", id |-> id]
NotAParameter == [kind |-> "other"]

\* the sets of at most two fields
Deviations(Fields) == {{f, g} : f \in Fields, g \in Fields} \cup {{}}

SolarFields ==
    {"location", "direct_normal_solar", "diffuse_horizontal_solar",
     "horizontal_infrared", "surface_temperatures", "fraction_body_exposed",
     "sky_exposure", "floor_reflectance", "solarcal_body_parameter"}

SolarNominal(n) ==
    [location |-> Location(1),
     direct_normal_solar |-> Hourly("Irradiance", "W/m2", 1, 0, Ramp(10, n)),
     diffuse_horizontal_solar |->
         Hourly("Irradiance", "W/m2", 1, 0, Ramp(20, n)),
     horizontal_infrared |->
         Hourly("HorizontalInfraredRadiationIntensity", "W/m2", 1, 0,
                Ramp(30, n)),
     surface_temperatures |-> Hourly("Temperature", "C", 1, 0, Ramp(40, n)),
     fraction_body_exposed |-> None,
     sky_exposure |-> None,
     floor_reflectance |-> None,
     solarcal_body_parameter |-> None]

\* the other values of an optional fraction input
FractionAlts(n, first) ==
    {Number(50), Hourly("Percentage", "fraction", 1, 0, Ramp(first, n))}
    \cup {Hourly("Percentage", "fraction", 1, 0, Ramp(first, m)) :
             m \in OtherLens(n, MaxLen)}

SolarAlts(n, f) ==
    CASE f = "location" -> {NotACollection}
      [] f = "direct_normal_solar" ->
             {Hourly("Irradiance", "W/m2", 1, 0, Ramp(10, m)) :
                 m \in OtherLens(n, MaxLen)}
             \cup {Hourly("Irradiance", "W/m2", 1, 1, Ramp(10, n)),
                   Hourly("Radiation", "Wh/m2", 2, 0, Ramp(10, n)),
                   Hourly("Temperature", "C", 1, 0, Ramp(10, n)),
                   NotACollection}
      [] f = "diffuse_horizontal_solar" ->
             {Hourly("Irradiance", "W/m2", 1, 0, Ramp(20, m)) :
                 m \in OtherLens(n, MaxLen)}
             \cup {Hourly("Radiation", "Wh/m2", 1, 0, Ramp(20, n)),
                   Hourly("Radiation", "Wh/m2", 2, 0, Ramp(20, n)),
                   Hourly("Radiation", "W/m2", 1, 0, Ramp(20, n)),
                   Hourly("Irradiance", "W/m2", 2, 0, Ramp(20, n)),
                   Hourly("Temperature", "C", 1, 0, Ramp(20, n)),
                   Collection("Daily", "Irradiance", "W/m2", 1,
                              Datetimes(0, n), Ramp(20, n))}
      [] f = "horizontal_infrared" ->
             {Hourly("HorizontalInfraredRadiationIntensity", "W/m2", 1, 0,
                     Ramp(30, m)) : m \in OtherLens(n, MaxLen)}
             \cup {Hourly("HorizontalInfraredRadiationIntensity", "W/m2", 1,
                          1, Ramp(30, n)),
                   Hourly("Irradiance", "W/m2", 1, 0, Ramp(30, n))}
      [] f = "surface_temperatures" ->
             {Hourly("Temperature", "C", 1, 0, Ramp(40, m)) :
                 m \in OtherLens(n, MaxLen)}
             \cup {Hourly("AirTemperature", "C", 1, 0, Ramp(40, n)),
                   Hourly("Temperature", "F", 1, 0, Ramp(40, n))}
      [] f = "fraction_body_exposed" ->
             FractionAlts(n, 50)
             \cup {Number(0), Hourly("Percentage", "%", 1, 0, Ramp(50, n))}
      [] f = "sky_exposure" -> FractionAlts(n, 60)
      [] f = "floor_reflectance" -> FractionAlts(n, 70)
      [] f = "solarcal_body_parameter" ->
             {SolarCalParameter("seated", 90, NoAzimuth),
              SolarCalParameter("standing", DefaultSharp, 180),
              NotAParameter}

SolarPick(n, D, f) ==
    IF f \in D THEN SolarAlts(n, f) ELSE {SolarNominal(n)[f]}

\* the inputs of length n whose values outside the fields D are nominal
SolarInputsWith(n, D) ==
    [location : SolarPick(n, D, "location"),
     direct_normal_solar : SolarPick(n, D, "direct_normal_solar"),
     diffuse_horizontal_solar : SolarPick(n, D, "diffuse_horizontal_solar"),
     horizontal_infrared : SolarPick(n, D, "horizontal_infrared"),
     surface_temperatures : SolarPick(n, D, "surface_temperatures"),
     fraction_body_exposed : SolarPick(n, D, "fraction_body_exposed"),
     sky_exposure : SolarPick(n, D, "sky_exposure"),
     floor_reflectance : SolarPick(n, D, "floor_reflectance"),
     solarcal_body_parameter : SolarPick(n, D, "solarcal_body_parameter")]

SolarInputs ==
    UNION {SolarInputsWith(n, D) :
              n \in 0..MaxLen, D \in Deviations(SolarFields)}

UTCIFields ==
    {"air_temperature", "rel_humidity", "rad_temperature", "wind_speed",
     "comfort_parameter"}

\* air temperatures that are cold, comfortable and hot in still air
Temps == {5, 20, 27}
\* air temperatures in the other eight stress categories
OtherTemps == {-45, -30, -20, -5, 30, 35, 40, 50}

UTCINominal(n) ==
    [air_temperature |-> Hourly("AirTemperature", "C", 1, 0, Ramp(18, n)),
     rel_humidity |-> Number(50),
     rad_temperature |-> None,
     wind_speed |-> None,
     comfort_parameter |-> None]

UTCIAlts(n, f) ==
    CASE f = "air_temperature" ->
             {Hourly("Temperature", "C", 1, 0, Ramp(-3, n)),
              Hourly("WindSpeed", "m/s", 1, 0, Ramp(18, n)),
              NotACollection}
      [] f = "rel_humidity" ->
             {Number(100),
              Hourly("RelativeHumidity", "%", 1, 0, Ramp(50, n)),
              Hourly("RelativeHumidity", "%", 1, 1, Ramp(50, n)),
              Hourly("RelativeHumidity", "fraction", 1, 0, Ramp(50, n))}
             \cup {Hourly("RelativeHumidity", "%", 1, 0, Ramp(50, m)) :
                      m \in OtherLens(n, MaxSteps)}
      [] f = "rad_temperature" ->
             {Number(30),
              Hourly("MeanRadiantTemperature", "C", 1, 0, Ramp(30, n)),
              Hourly("RelativeHumidity", "%", 1, 0, Ramp(30, n))}
             \cup {Hourly("MeanRadiantTemperature", "C", 1, 0, Ramp(30, m)) :
                      m \in OtherLens(n, MaxSteps)}
      [] f = "wind_speed" ->
             {Number(100),
              Hourly("WindSpeed", "m/s", 1, 0, Ramp(40, n)),
              Hourly("WindSpeed", "km/h", 1, 0, Ramp(40, n))}
      [] f = "comfort_parameter" ->
             {UTCIParameter(5, 30), NotAParameter}

UTCIPick(n, D, f) ==
    IF f \in D THEN UTCIAlts(n, f) ELSE {UTCINominal(n)[f]}

UTCIInputsWith(n, D) ==
    [air_temperature : UTCIPick(n, D, "air_temperature"),
     rel_humidity : UTCIPick(n, D, "rel_humidity"),
     rad_temperature : UTCIPick(n, D, "rad_temperature"),
     wind_speed : UTCIPick(n, D, "wind_speed"),
     comfort_parameter : UTCIPick(n, D, "comfort_parameter")]

\* the nominal inputs with the given air temperature values
UTCIWithAir(values) ==
    [UTCINominal(Len(values)) EXCEPT
        !.air_temperature = Hourly("AirTemperature", "C", 1, 0, values)]

UTCIInputs ==
    UNION {UTCIInputsWith(n, D) :
              n \in 0..MaxSteps, D \in Deviations(UTCIFields)}
    \cup {UTCIWithAir(v) : v \in UNION {[1..n -> Temps] : n \in 0..MaxSteps}}
    \cup {UTCIWithAir(Const(t, n)) : t \in OtherTemps, n \in 1..MaxSteps}

(***************************************************************************)
(* The state machine: one calculator is constructed, then its properties   *)
(* are read and the caller changes what it was handed.  Calculators share  *)
(* no state, so a behaviour follows one calculator.                        *)
(***************************************************************************)
VARIABLES
    sc,     \* the OutdoorSolarCal: status, inputs and fields
    ut,     \* the UTCI: status, inputs and fields
    held    \* what the last property access handed to the caller

vars == <<sc, ut, held>>

NotConstructed == [status |-> "none"]
NoAccess == [of |-> "", name |-> "", err |-> "none", value |-> None,
             ref |-> "", changed |-> FALSE]

Constructed(inp, o) ==
    [status |-> IF o.err = "none" THEN "ok" ELSE "failed",
     inp |-> inp, obj |-> o]

Init ==
    /\ sc = NotConstructed
    /\ ut = NotConstructed
    /\ held = NoAccess

\* OutdoorSolarCal(...)
ConstructSolarCal ==
    /\ sc.status = "none" /\ ut.status = "none"
    /\ \E inp \in SolarInputs : sc' = Constructed(inp, OutdoorSolarCal(inp))
    /\ UNCHANGED <<ut, held>>

\* UTCI(...)
ConstructUTCI ==
    /\ sc.status = "none" /\ ut.status = "none"
    /\ \E inp \in UTCIInputs : ut' = Constructed(inp, UTCI(inp))
    /\ UNCHANGED <<sc, held>>

Handed(of, name, r) ==
    [of |-> of, name |-> name, err |-> r.err, value |-> r.value,
     ref |-> r.ref, changed |-> FALSE]

\* reading a property of the OutdoorSolarCal
ReadSolarCal ==
    /\ sc.status = "ok"
    /\ \E name \in SolarAccessors :
           held' = Handed("sc", name, SolarAccess(sc.obj, name))
    /\ UNCHANGED <<sc, ut>>

\* reading a property of the UTCI
ReadUTCI ==
    /\ ut.status = "ok"
    /\ \E name \in UTCIAccessors :
           held' = Handed("ut", name, UTCIAccess(ut.obj, name))
    /\ UNCHANGED <<sc, ut>>

\* reading a percentage property of the UTCI
ReadPercent ==
    /\ ut.status = "ok"
    /\ \E name \in PercentNames :
           LET r == Percent(ut.obj, name)
           IN  held' = [of |-> "ut", name |-> name, err |-> r.err,
                        value |-> [kind |-> "float", f |-> r.v],
                        ref |-> "", changed |-> FALSE]
    /\ UNCHANGED <<sc, ut>>

\* the caller sets an attribute of the object it was handed; when that
\* object is a field of the calculator, the field changes with it
ChangeHeld ==
    /\ held.err = "none" /\ ~held.changed
    /\ held.value.kind \in {"coll", "Location", "SolarCalParameter",
                            "UTCIParameter"}
    /\ held' = [held EXCEPT !.value = Mutated(@), !.changed = TRUE]
    /\ IF held.ref # "" /\ held.of = "ut"
       THEN ut' = [ut EXCEPT !.obj[held.ref] = Mutated(@)]
       ELSE ut' = ut
    /\ IF held.ref # "" /\ held.of = "sc"
       THEN sc' = [sc EXCEPT !.obj[held.ref] = Mutated(@)]
       ELSE sc' = sc

Next ==
    \/ ConstructSolarCal
    \/ ConstructUTCI
    \/ ReadSolarCal
    \/ ReadUTCI
    \/ ReadPercent
    \/ ChangeHeld

Spec == Init /\ [][Next]_vars


(***************************************************************************)
(* Claims                                                                  *)
(***************************************************************************)
SolarStreamFields ==
    {"direct_normal_solar", "diffuse_horizontal_solar", "horizontal_infrared",
     "surface_temperatures", "fraction_body_exposed", "sky_exposure",
     "floor_reflectance"}

UTCIStreamFields ==
    {"air_temperature", "rel_humidity", "rad_temperature", "wind_speed"}

\* the inputs of the given fields that were supplied as collections
Streams(inp, fields) == {f \in fields : inp[f].kind = "coll"}

\* C1: in every constructed calculator each derived array has exactly
\* calc_length entries, and so has every input supplied as a stream.
C1_AlignmentInvariant ==
    /\ sc.status = "ok" =>
           /\ Len(sc.obj.s_erf) = sc.obj.calc_length
           /\ Len(sc.obj.s_dmrt) = sc.obj.calc_length
           /\ Len(sc.obj.l_erf) = sc.obj.calc_length
           /\ Len(sc.obj.l_dmrt) = sc.obj.calc_length
           /\ Len(sc.obj.dmrt) = sc.obj.calc_length
           /\ Len(sc.obj.mrt) = sc.obj.calc_length
           /\ \A f \in Streams(sc.inp, SolarStreamFields) :
                  Len(sc.inp[f].values) = sc.obj.calc_length
    /\ ut.status = "ok" =>
           /\ Len(ut.obj.utci) = ut.obj.calc_length
           /\ Len(ut.obj.thermal_category) = ut.obj.calc_length
           /\ \A f \in Streams(ut.inp, UTCIStreamFields) :
                  Len(ut.inp[f].values) = ut.obj.calc_length

\* two of the stream inputs differ in length or in a timestamp
Misaligned(inp, fields) ==
    \E f \in Streams(inp, fields), g \in Streams(inp, fields) :
        ~is_collection_aligned(inp[f], inp[g])

\* every input of an OutdoorSolarCal passes the check of its own type and unit
SolarInputsValid(inp) ==
    /\ inp.location.kind = "Location"
    /\ radiation_check(inp.direct_normal_solar) = "none"
    /\ radiation_check(inp.diffuse_horizontal_solar) = "none"
    /\ check_datacoll(inp.horizontal_infrared,
                      "HorizontalInfraredRadiationIntensity", "W/m2") = "none"
    /\ check_datacoll(inp.surface_temperatures, "Temperature", "C") = "none"
    /\ \A f \in {"fraction_body_exposed", "sky_exposure", "floor_reflectance"} :
           \/ inp[f].kind \in {"none", "num"}
           \/ check_datacoll(inp[f], "Percentage", "fraction") = "none"
    /\ inp.solarcal_body_parameter.kind \in {"none", "SolarCalParameter"}

\* C2: an OutdoorSolarCal whose stream inputs (the direct-normal and the
\* diffuse-horizontal streams among them) are not all aligned fails with
\* MisalignedCollections, before the calculation starts.
C2_MisalignedRejected ==
    (sc.status # "none" /\ SolarInputsValid(sc.inp)
        /\ Misaligned(sc.inp, SolarStreamFields)) =>
        /\ sc.status = "failed"
        /\ sc.obj.err = "MisalignedCollections"
        /\ ~sc.obj.computed
        /\ sc.obj.calls = <<>>

\* C3: with calc_length = 0 no percentage accessor ends in a division by
\* zero.
C3_NoDivisionByZero ==
    (ut.status = "ok" /\ ut.obj.calc_length = 0
        /\ held.of = "ut" /\ held.name \in PercentNames) =>
        held.err # "ZeroDivisionError"


F100 == FInt(100)

\* C4 as claimed: for a non-empty category sequence percent_comfortable +
\* percent_uncomfortable == 100 and percent_cold + percent_comfortable +
\* percent_hot == 100.
C4_PercentClosure ==
    (ut.status = "ok" /\ Len(ut.obj.thermal_category) > 0) =>
        /\ FAdd(percent_comfortable(ut.obj).v,
                percent_uncomfortable(ut.obj).v) = F100
        /\ FAdd(FAdd(percent_cold(ut.obj).v, percent_comfortable(ut.obj).v),
                percent_hot(ut.obj).v) = F100

\* C4 as amended: percent_comfortable + percent_uncomfortable == 100 exactly,
\* and percent_cold + percent_comfortable + percent_hot is 100 up to the
\* rounding of the float arithmetic, within 2^-44 of 100.
C4_PercentClosureRounded ==
    (ut.status = "ok" /\ Len(ut.obj.thermal_category) > 0) =>
        /\ percent_comfortable(ut.obj).err = "none"
        /\ percent_cold(ut.obj).err = "none"
        /\ percent_hot(ut.obj).err = "none"
        /\ FAdd(percent_comfortable(ut.obj).v,
                percent_uncomfortable(ut.obj).v) = F100
        /\ Within(FAdd(FAdd(percent_cold(ut.obj).v,
                            percent_comfortable(ut.obj).v),
                       percent_hot(ut.obj).v),
                  F100, Pow2(-44))

\* a UTCI with one cold, one comfortable and one hot step of three, where the
\* three percentages add up to 99.99999999999999
C4_Witness ==
    /\ ut.status = "ok"
    /\ Len(ut.obj.thermal_category) = 3
    /\ \E i, j, k \in 1..3 :
           /\ ut.obj.thermal_category[i] < 0
           /\ ut.obj.thermal_category[j] = 0
           /\ ut.obj.thermal_category[k] > 0
    /\ FAdd(FAdd(percent_cold(ut.obj).v, percent_comfortable(ut.obj).v),
            percent_hot(ut.obj).v) # F100

\* the category codes a percentage statistic counts
StatCodes(name) ==
    CASE name \in {"percent_comfortable", "percent_neutral"} -> {0}
      [] name = "percent_uncomfortable" -> (-5..5) \ {0}
      [] name = "percent_cold" -> -5..-1
      [] name = "percent_hot" -> 1..5
      [] name = "percent_extreme_cold_stress" -> {-5}
      [] name = "percent_very_strong_cold_stress" -> {-4}
      [] name = "percent_strong_cold_stress" -> {-3}
      [] name = "percent_moderate_cold_stress" -> {-2}
      [] name = "percent_slight_cold_stress" -> {-1}
      [] name = "percent_slight_heat_stress" -> {1}
      [] name = "percent_moderate_heat_stress" -> {2}
      [] name = "percent_strong_heat_stress" -> {3}
      [] name = "percent_very_strong_heat_stress" -> {4}
      [] name = "percent_extreme_heat_stress" -> {5}

CountIn(cats, codes) == Cardinality({k \in 1..Len(cats) : cats[k] \in codes})

\* the number of steps the percentage statistic of the given name counts
StatCount(o, name) == CountIn(o.thermal_category, StatCodes(name))

\* C5 as claimed: the value a percentage accessor returns equals
\* 100 * count / calc_length (the float of that quotient), count being the
\* number of steps whose category the statistic counts; percent_neutral is
\* percent_comfortable and percent_uncomfortable is 100 - percent_comfortable.
C5_PercentExact ==
    (ut.status = "ok" /\ ut.obj.calc_length > 0
        /\ held.of = "ut" /\ held.name \in PercentNames) =>
        /\ held.err = "none"
        /\ held.name # "percent_uncomfortable" =>
               held.value.f = FDivInt(100 * StatCount(ut.obj, held.name),
                                      ut.obj.calc_length)
        /\ held.name = "percent_neutral" =>
               held.value.f = percent_comfortable(ut.obj).v
        /\ held.name = "percent_uncomfortable" =>
               held.value.f = FSub(F100, percent_comfortable(ut.obj).v)

\* C5 as amended: the value a percentage accessor returns is the float
\* (count / calc_length) * 100, the quotient rounded and then the product
\* rounded, which is 100 * count / calc_length to within the rounding of the
\* float arithmetic (2^-45); percent_neutral is percent_comfortable and
\* percent_uncomfortable is the float 100 - percent_comfortable.
C5_PercentFormula ==
    (ut.status = "ok" /\ ut.obj.calc_length > 0
        /\ held.of = "ut" /\ held.name \in PercentNames) =>
        /\ held.err = "none"
        /\ held.name # "percent_uncomfortable" =>
               held.value.f = FMulInt(FDivInt(StatCount(ut.obj, held.name),
                                              ut.obj.calc_length), 100)
        /\ Within(ExMulInt(held.value.f, ut.obj.calc_length),
                  ExInt(100 * StatCount(ut.obj, held.name)),
                  ExMulInt(Pow2(-45), ut.obj.calc_length))
        /\ held.name = "percent_neutral" =>
               held.value.f = percent_comfortable(ut.obj).v
        /\ held.name = "percent_uncomfortable" =>
               held.value.f = FSub(F100, percent_comfortable(ut.obj).v)

\* percent_slight_cold_stress read from a UTCI with two steps of three in
\* slight cold stress: 66.66666666666666
C5_Witness ==
    /\ ut.status = "ok" /\ ut.obj.calc_length = 3
    /\ CountIn(ut.obj.thermal_category, {-1}) = 2
    /\ held.of = "ut" /\ held.name = "percent_slight_cold_stress"
    /\ held.err = "none"
    /\ held.value.f = FMulInt(FDivInt(2, 3), 100)


ValidationErrors ==
    {"TypeMismatch", "UnitMismatch", "InvalidTimestep",
     "MisalignedCollections", "InvalidParameter"}

\* C6: a construction that fails has failed in one of the checks, before
\* the calculation: no derived array is computed and the formula was not
\* called; a construction that calculated has passed every check.
C6_ValidationBeforeCalculation ==
    /\ sc.status = "failed" =>
           /\ sc.obj.err \in ValidationErrors
           /\ ~sc.obj.computed
           /\ Len(sc.obj.calls) = 0 /\ Len(sc.obj.sun_calls) = 0
           /\ Len(sc.obj.s_erf) = 0 /\ Len(sc.obj.s_dmrt) = 0
           /\ Len(sc.obj.l_erf) = 0 /\ Len(sc.obj.l_dmrt) = 0
           /\ Len(sc.obj.dmrt) = 0 /\ Len(sc.obj.mrt) = 0
    /\ sc.status = "ok" =>
           /\ sc.obj.computed
           /\ sc.obj.body_par.kind = "SolarCalParameter"
           /\ are_collections_aligned(sc.obj.input_collections)
    /\ ut.status = "failed" =>
           /\ ut.obj.err \in ValidationErrors
           /\ ~ut.obj.computed
           /\ Len(ut.obj.calls) = 0
           /\ Len(ut.obj.utci) = 0 /\ Len(ut.obj.thermal_category) = 0
    /\ ut.status = "ok" =>
           /\ ut.obj.computed
           /\ ut.obj.comfort_par.kind = "UTCIParameter"
           /\ are_collections_aligned(ut.obj.input_collections)

\* an OutdoorSolarCal whose registered streams are misaligned: the
\* construction failed in the alignment check with nothing computed
C6_Witness ==
    /\ sc.status = "failed"
    /\ sc.obj.err = "MisalignedCollections"
    /\ Len(sc.obj.input_collections) >= 2
    /\ Len(sc.obj.input_collections[1].values) > 0
    /\ ~sc.obj.computed

\* C7: the direct-normal input is the base stream of an OutdoorSolarCal:
\* calc_length is its length, direct_normal_solar returns its values and at
\* step k the formula gets its k-th value as the direct solar and the k-th
\* diffuse-horizontal value as the diffuse solar.
C7_DirectNormalIsBase ==
    sc.status = "ok" =>
        /\ sc.inp.direct_normal_solar.kind = "coll"
        /\ sc.obj.calc_length = Len(sc.inp.direct_normal_solar.values)
        /\ SolarAccess(sc.obj, "direct_normal_solar").value.values =
               sc.inp.direct_normal_solar.values
        /\ \A k \in 1..Len(sc.obj.calls) :
               /\ k <= Len(sc.inp.direct_normal_solar.values)
               /\ sc.obj.calls[k].dir = sc.inp.direct_normal_solar.values[k]
               /\ sc.obj.calls[k].diff =
                      sc.inp.diffuse_horizontal_solar.values[k]

SolarDerived(o) == <<o.s_erf, o.s_dmrt, o.l_erf, o.l_dmrt, o.dmrt, o.mrt>>

\* the construction with the number given for field f replaced by a stream
\* aligned with the base collection and filled with that number
SolarWithStream(f) ==
    OutdoorSolarCal([sc.inp EXCEPT ![f] =
        get_aligned_collection(sc.obj.base_collection, sc.inp[f].v,
                               "Percentage", "fraction")])

UTCIWithStream(f, dat_type, unit) ==
    UTCI([ut.inp EXCEPT ![f] =
        get_aligned_collection(ut.obj.base_collection, ut.inp[f].v,
                               dat_type, unit)])

\* C8: a calculator constructed with a number for an optional input has the
\* derived arrays, step for step, of the calculator constructed with an
\* aligned stream of calc_length copies of that number in its place.
C8_BroadcastEquivalence ==
    /\ sc.status = "ok" =>
           \A f \in {"fraction_body_exposed", "sky_exposure",
                     "floor_reflectance"} :
               sc.inp[f].kind = "num" =>
                   /\ SolarWithStream(f).err = "none"
                   /\ SolarWithStream(f).calls = sc.obj.calls
                   /\ SolarDerived(SolarWithStream(f)) = SolarDerived(sc.obj)
    /\ ut.status = "ok" =>
           /\ ut.inp.rel_humidity.kind = "num" =>
                  /\ UTCIWithStream("rel_humidity", "RelativeHumidity",
                                    "%").err = "none"
                  /\ UTCIWithStream("rel_humidity", "RelativeHumidity",
                                    "%").utci = ut.obj.utci
                  /\ UTCIWithStream("rel_humidity", "RelativeHumidity",
                         "%").thermal_category = ut.obj.thermal_category
           /\ ut.inp.rad_temperature.kind = "num" =>
                  /\ UTCIWithStream("rad_temperature",
                         "MeanRadiantTemperature", "C").err = "none"
                  /\ UTCIWithStream("rad_temperature",
                         "MeanRadiantTemperature", "C").utci = ut.obj.utci
                  /\ UTCIWithStream("rad_temperature",
                         "MeanRadiantTemperature", "C").thermal_category =
                         ut.obj.thermal_category
           /\ ut.inp.wind_speed.kind = "num" =>
                  /\ UTCIWithStream("wind_speed", "WindSpeed",
                                    "m/s").err = "none"
                  /\ UTCIWithStream("wind_speed", "WindSpeed",
                                    "m/s").utci = ut.obj.utci
                  /\ UTCIWithStream("wind_speed", "WindSpeed",
                         "m/s").thermal_category = ut.obj.thermal_category

\* C9: an omitted optional input takes its default at every step: fraction
\* of body exposed 1, sky exposure 1, floor reflectance 0.25 and posture
\* standing in an OutdoorSolarCal; in a UTCI the radiant temperature of step
\* k is the air temperature of step k and the wind speed is 0.1.
C9_Defaults ==
    /\ sc.status = "ok" =>
           /\ sc.inp.fraction_body_exposed.kind = "none" =>
                  /\ sc.obj.fract_exp.values = Const(100, sc.obj.calc_length)
                  /\ \A k \in 1..Len(sc.obj.calls) :
                         sc.obj.calls[k].fract_e = 100
           /\ sc.inp.sky_exposure.kind = "none" =>
                  /\ sc.obj.sky_exp.values = Const(100, sc.obj.calc_length)
                  /\ \A k \in 1..Len(sc.obj.calls) :
                         sc.obj.calls[k].sky_e = 100
           /\ sc.inp.floor_reflectance.kind = "none" =>
                  /\ sc.obj.flr_ref.values = Const(25, sc.obj.calc_length)
                  /\ \A k \in 1..Len(sc.obj.calls) :
                         sc.obj.calls[k].flr_ref = 25
           /\ sc.inp.solarcal_body_parameter.kind = "none" =>
                  \A k \in 1..Len(sc.obj.calls) :
                      sc.obj.calls[k].posture = "standing"
    /\ ut.status = "ok" =>
           /\ Len(ut.obj.calls) = ut.obj.calc_length
           /\ ut.inp.rad_temperature.kind = "none" =>
                  \A k \in 1..ut.obj.calc_length :
                      ut.obj.calls[k].tr = ut.inp.air_temperature.values[k]
           /\ ut.inp.wind_speed.kind = "none" =>
                  \A k \in 1..ut.obj.calc_length : ut.obj.calls[k].vel = 1

\* an OutdoorSolarCal constructed from the four required streams alone, of
\* two steps
C9_Witness ==
    /\ sc.status = "ok" /\ Len(sc.obj.calls) = 2
    /\ sc.inp.fraction_body_exposed.kind = "none"
    /\ sc.inp.sky_exposure.kind = "none"
    /\ sc.inp.floor_reflectance.kind = "none"
    /\ sc.inp.solarcal_body_parameter.kind = "none"
    /\ sc.obj.calls[2].flr_ref = 25

\* C10: once a calculator is constructed, no property access and nothing
\* the caller does to a returned value changes its fields.
C10_NothingChangesAfterConstruction ==
    [][/\ sc.status = "ok" => sc' = sc
       /\ ut.status = "ok" => ut' = ut]_vars

\* the index values the classification is examined over
IndexValues == -50..55

\* the comfort parameter the UTCI was constructed with
ConstructionPar == UTCI(ut.inp).comfort_par

\* C11: the category sequence of a UTCI has one entry per timestep, entry k
\* is the eleven-point classification (by the comfort parameter of the
\* construction) of index value k and lies in -5..5, and the classification
\* does not decrease as the index value increases.
C11_CategorySequence ==
    ut.status = "ok" =>
        LET par == ConstructionPar
            category(x) == thermal_condition_eleven_point(par, x)
        IN  /\ Len(ut.obj.thermal_category) = ut.obj.calc_length
            /\ Len(ut.obj.utci) = ut.obj.calc_length
            /\ \A k \in 1..ut.obj.calc_length :
                   /\ ut.obj.thermal_category[k] = category(ut.obj.utci[k])
                   /\ ut.obj.thermal_category[k] \in -5..5
            /\ \A j, k \in 1..ut.obj.calc_length :
                   ut.obj.utci[j] <= ut.obj.utci[k] =>
                       ut.obj.thermal_category[j] <=
                           ut.obj.thermal_category[k]
            /\ \A x \in IndexValues :
                   /\ category(x) \in -5..5
                   /\ category(x) <= category(x + 1)

\* a UTCI of three steps whose index values rise, differ from the air
\* temperatures and cross a threshold between two categories
C11_Witness ==
    /\ ut.status = "ok" /\ ut.obj.calc_length = 3
    /\ ut.obj.utci[1] # ut.obj.air_temperature[1]
    /\ ut.obj.utci[1] < ut.obj.utci[2] /\ ut.obj.utci[2] < ut.obj.utci[3]
    /\ ut.obj.thermal_category[1] < ut.obj.thermal_category[3]

\* what the radiation check makes of a stream: "none" when it accepts it,
\* else the kind of error (the timestep is the stream's own, which is the
\* base stream's when the streams are aligned)
RadiationVerdict(x) ==
    IF ~(x.kind = "coll" /\ x.cls = "Hourly") THEN "Mismatch"
    ELSE IF x.dtype = "Irradiance" /\ x.unit = "W/m2" THEN "none"
    ELSE IF x.dtype = "Radiation" /\ x.unit = "Wh/m2"
    THEN (IF x.timestep = 1 THEN "none" ELSE "InvalidTimestep")
    ELSE "Mismatch"

ErrorKind(err) ==
    IF err \in {"TypeMismatch", "UnitMismatch"} THEN "Mismatch" ELSE err

\* C12: each radiation input of an OutdoorSolarCal (direct normal, diffuse
\* horizontal) is accepted as Irradiance in W/m2 at any timestep and as
\* Radiation in Wh/m2 at timestep 1; a Radiation stream of another timestep
\* fails the construction with InvalidTimestep and a stream of another data
\* type or unit fails it with a type or unit mismatch.
C12_RadiationCheck ==
    (sc.status # "none" /\ sc.inp.location.kind = "Location") =>
        LET dir  == RadiationVerdict(sc.inp.direct_normal_solar)
            diff == RadiationVerdict(sc.inp.diffuse_horizontal_solar)
        IN  /\ dir # "none" =>
                   sc.status = "failed" /\ ErrorKind(sc.obj.err) = dir
            /\ (dir = "none" /\ diff # "none") =>
                   sc.status = "failed" /\ ErrorKind(sc.obj.err) = diff
            /\ (dir = "none" /\ diff = "none") =>
                   /\ sc.obj.err # "InvalidTimestep"
                   /\ SolarInputsValid(sc.inp) =>
                          ErrorKind(sc.obj.err) # "Mismatch"

\* C13: an OutdoorSolarCal obtains the solar position once for each
\* timestamp of its base stream, in timestamp order; at step k the formula
\* gets the solar altitude of timestamp k and, as the SHARP, the angle derived
\* from the solar azimuth of timestamp k and the body azimuth when the body
\* parameters have one, else their fixed SHARP, the same at every step.
C13_SolarPosition ==
    sc.status = "ok" =>
        LET datetimes == sc.obj.base_collection.datetimes
            sun(k) == calculate_sun_from_date_time(sc.obj.location,
                                                   datetimes[k])
            par == sc.obj.body_par
        IN  /\ sc.obj.sun_calls = datetimes
            /\ Len(sc.obj.calls) <= Len(datetimes)
            /\ \A k \in 1..Len(sc.obj.calls) :
                   /\ sc.obj.calls[k].alt = sun(k).altitude
                   /\ par.body_azimuth # NoAzimuth =>
                          sc.obj.calls[k].sharp =
                              sharp_from_solar_and_body_azimuth(
                                  sun(k).azimuth, par.body_azimuth)
                   /\ par.body_azimuth = NoAzimuth =>
                          sc.obj.calls[k].sharp = par.sharp

\* an OutdoorSolarCal of two steps whose body parameters have the body
\* azimuth 180: the SHARP of each step comes from the sun of that step
C13_Witness ==
    /\ sc.status = "ok" /\ Len(sc.obj.calls) = 2
    /\ sc.inp.solarcal_body_parameter.kind = "SolarCalParameter"
    /\ sc.obj.body_par.body_azimuth = 180
    /\ sc.obj.calls[1].sharp # sc.obj.calls[2].sharp
    /\ sc.obj.calls[1].alt # sc.obj.calls[2].alt

\* the values a collection accessor of the OutdoorSolarCal returns
SolarValues(name) == SolarAccess(sc.obj, name).value.values

\* C14: entry k of each derived array of an OutdoorSolarCal comes from the
\* k-th call of the formula, whose arguments are the k-th values of the
\* calculator's input streams: s_erf, s_dmrt, l_erf, l_dmrt and mrt hold the
\* five outputs of that call, and the total MRT delta of step k is the
\* shortwave delta plus the longwave delta of step k.
C14_DerivedArrays ==
    sc.status = "ok" =>
        LET o == sc.obj
            n == Len(o.calls)
            out(k) == outdoor_sky_heat_exch(o.calls[k])
        IN  /\ Len(o.s_erf) = n /\ Len(o.s_dmrt) = n /\ Len(o.l_erf) = n
            /\ Len(o.l_dmrt) = n /\ Len(o.dmrt) = n /\ Len(o.mrt) = n
            /\ \A k \in 1..n :
                   /\ o.calls[k].t_srfs = SolarValues("surface_temperatures")[k]
                   /\ o.calls[k].horiz_ir = SolarValues("horizontal_infrared")[k]
                   /\ o.calls[k].diff =
                          SolarValues("diffuse_horizontal_solar")[k]
                   /\ o.calls[k].dir = SolarValues("direct_normal_solar")[k]
                   /\ o.calls[k].sky_e = SolarValues("sky_exposure")[k]
                   /\ o.calls[k].fract_e =
                          SolarValues("fraction_body_exposed")[k]
                   /\ o.calls[k].flr_ref = SolarValues("floor_reflectance")[k]
                   /\ o.s_erf[k] = out(k).s_erf
                   /\ o.s_dmrt[k] = out(k).s_dmrt
                   /\ o.l_erf[k] = out(k).l_erf
                   /\ o.l_dmrt[k] = out(k).l_dmrt
                   /\ o.mrt[k] = out(k).mrt
                   /\ o.dmrt[k] = Plus(o.s_dmrt[k], o.l_dmrt[k])
            /\ SolarAccess(o, "mrt_delta").err = "none" =>
                   /\ SolarAccess(o, "shortwave_mrt_delta").err = "none"
                   /\ SolarAccess(o, "longwave_mrt_delta").err = "none"
                   /\ Len(SolarValues("mrt_delta")) = n
                   /\ \A k \in 1..n :
                          SolarValues("mrt_delta")[k] =
                              Plus(SolarValues("shortwave_mrt_delta")[k],
                                   SolarValues("longwave_mrt_delta")[k])

\* an OutdoorSolarCal of two steps whose mrt_delta accessor returns, at the
\* second step, the sum of the two deltas of the second call
C14_Witness ==
    /\ sc.status = "ok" /\ Len(sc.obj.calls) = 2
    /\ SolarAccess(sc.obj, "mrt_delta").err = "none"
    /\ sc.obj.calls[1] # sc.obj.calls[2]
    /\ SolarValues("mrt_delta")[2] =
           Plus(outdoor_sky_heat_exch(sc.obj.calls[2]).s_dmrt,
                outdoor_sky_heat_exch(sc.obj.calls[2]).l_dmrt)
    /\ SolarValues("mrt_delta")[1] # SolarValues("mrt_delta")[2]

====
